---------------------------- MODULE Spec2Model ----------------------------
(***************************************************************************)
(* AgriAI crop catalog: the multi-source ingestion / deduplication / sync  *)
(* pipeline (app/services/crop_api_service.py, app/crud/crud_crop_data.py, *)
(* scripts/seed_db.py) and the two suitability scorers and rankers         *)
(* (app/services/crop_service.py, app/routers/crop_api.py).                *)
(*                                                                         *)
(* Python strings on which the code computes (lower, strip, ==) are        *)
(* sequences of one-character strings.  Optional numbers are sequences of  *)
(* length at most one (<<>> is None).  Scores are kept in tenths: every    *)
(* sum the scorers can form (0.4+0.3+0.3, 0.3+0.2+0.2+0.2, ...) compares   *)
(* with 0.3 and rounds to two places exactly as its integer number of      *)
(* tenths does.  pH values are kept in tenths as well.                     *)
(***************************************************************************)
EXTENDS Integers, Sequences, FiniteSets, TLC

VARIABLES store, out

vars == <<store, out>>

(***************************************************************************)
(* String literals                                                         *)
(***************************************************************************)
s_Wheat_sp == <<"W", "h", "e", "a", "t", " ">>
s_wheat == <<"w", "h", "e", "a", "t">>
s_Corn == <<"C", "o", "r", "n">>
s_corn == <<"c", "o", "r", "n">>
s_rice == <<"r", "i", "c", "e">>
s_tomato == <<"t", "o", "m", "a", "t", "o">>
s_potato == <<"p", "o", "t", "a", "t", "o">>
s_chickpea == <<"c", "h", "i", "c", "k", "p", "e", "a">>
s_lentil == <<"l", "e", "n", "t", "i", "l">>
s_mustard == <<"m", "u", "s", "t", "a", "r", "d">>
s_groundnut == <<"g", "r", "o", "u", "n", "d", "n", "u", "t">>
s_onion == <<"o", "n", "i", "o", "n">>
s_soybean == <<"s", "o", "y", "b", "e", "a", "n">>
s_Triticum_Aestivum == <<"T", "r", "i", "t", "i", "c", "u", "m", " ", "A", "e", "s", "t", "i", "v", "u", "m">>
s_triticum_aestivum == <<"t", "r", "i", "t", "i", "c", "u", "m", " ", "a", "e", "s", "t", "i", "v", "u", "m">>
s_Zea_Mays == <<"Z", "e", "a", " ", "M", "a", "y", "s">>
s_Zea_mays == <<"Z", "e", "a", " ", "m", "a", "y", "s">>
s_Zea == <<"Z", "e", "a">>
s_Cicer_arietinum == <<"C", "i", "c", "e", "r", " ", "a", "r", "i", "e", "t", "i", "n", "u", "m">>
s_Cicer == <<"C", "i", "c", "e", "r">>
s_Lens_culinaris == <<"L", "e", "n", "s", " ", "c", "u", "l", "i", "n", "a", "r", "i", "s">>
s_Brassica_juncea == <<"B", "r", "a", "s", "s", "i", "c", "a", " ", "j", "u", "n", "c", "e", "a">>
s_Arachis_hypogaea == <<"A", "r", "a", "c", "h", "i", "s", " ", "h", "y", "p", "o", "g", "a", "e", "a">>
s_Allium_cepa == <<"A", "l", "l", "i", "u", "m", " ", "c", "e", "p", "a">>
s_Solanum == <<"S", "o", "l", "a", "n", "u", "m">>
s_Solanum_lycopersicum == <<"S", "o", "l", "a", "n", "u", "m", " ", "l", "y", "c", "o", "p", "e", "r", "s", "i", "c", "u", "m">>
s_Solanum_tuberosum == <<"S", "o", "l", "a", "n", "u", "m", " ", "t", "u", "b", "e", "r", "o", "s", "u", "m">>
s_kharif == <<"k", "h", "a", "r", "i", "f">>
s_rabi == <<"r", "a", "b", "i">>
s_zaid == <<"z", "a", "i", "d">>
s_year_round == <<"y", "e", "a", "r", "_", "r", "o", "u", "n", "d">>
s_Rabi == <<"R", "a", "b", "i">>
usda_crops_to_search ==
    << <<"c", "o", "r", "n">>,
       <<"s", "o", "y", "b", "e", "a", "n">>,
       <<"w", "h", "e", "a", "t">>,
       <<"c", "o", "t", "t", "o", "n">>,
       <<"a", "l", "f", "a", "l", "f", "a">>,
       <<"b", "a", "r", "l", "e", "y">>,
       <<"o", "a", "t", "s">>,
       <<"s", "o", "r", "g", "h", "u", "m">>,
       <<"s", "u", "n", "f", "l", "o", "w", "e", "r">>,
       <<"c", "a", "n", "o", "l", "a">>,
       <<"p", "e", "a", "n", "u", "t">>,
       <<"s", "u", "g", "a", "r", "b", "e", "e", "t">> >>
plantnet_crops_to_search ==
    << <<"t", "o", "m", "a", "t", "o">>,
       <<"p", "o", "t", "a", "t", "o">>,
       <<"c", "o", "r", "n">>,
       <<"w", "h", "e", "a", "t">>,
       <<"r", "i", "c", "e">>,
       <<"s", "o", "y", "b", "e", "a", "n">>,
       <<"c", "o", "t", "t", "o", "n">>,
       <<"s", "u", "g", "a", "r", "c", "a", "n", "e">>,
       <<"p", "e", "a", "n", "u", "t">>,
       <<"s", "u", "n", "f", "l", "o", "w", "e", "r">>,
       <<"c", "a", "n", "o", "l", "a">>,
       <<"b", "a", "r", "l", "e", "y">>,
       <<"o", "a", "t", "s">>,
       <<"s", "o", "r", "g", "h", "u", "m">>,
       <<"a", "l", "f", "a", "l", "f", "a">>,
       <<"c", "h", "i", "c", "k", "p", "e", "a">>,
       <<"l", "e", "n", "t", "i", "l">>,
       <<"m", "u", "s", "t", "a", "r", "d">>,
       <<"g", "r", "o", "u", "n", "d", "n", "u", "t">>,
       <<"o", "n", "i", "o", "n">>,
       <<"c", "a", "r", "r", "o", "t">>,
       <<"c", "a", "b", "b", "a", "g", "e">>,
       <<"c", "a", "u", "l", "i", "f", "l", "o", "w", "e", "r">>,
       <<"p", "e", "p", "p", "e", "r">>,
       <<"c", "u", "c", "u", "m", "b", "e", "r">>,
       <<"p", "u", "m", "p", "k", "i", "n">> >>
s_arietinum == <<"a", "r", "i", "e", "t", "i", "n", "u", "m">>
s_unknown == <<"u", "n", "k", "n", "o", "w", "n">>

(***************************************************************************)
(* str.lower, str.strip, concatenation                                     *)
(***************************************************************************)
UpperToLower ==
    ("A" :> "a") @@ ("B" :> "b") @@ ("C" :> "c") @@ ("L" :> "l") @@
    ("M" :> "m") @@ ("R" :> "r") @@ ("S" :> "s") @@ ("T" :> "t") @@
    ("W" :> "w") @@ ("Z" :> "z")

LowerChar(c) == IF c \in DOMAIN UpperToLower THEN UpperToLower[c] ELSE c

Lower(s) == [i \in DOMAIN s |-> LowerChar(s[i])]

RECURSIVE LStrip(_)
LStrip(s) == IF s # <<>> /\ Head(s) = " " THEN LStrip(Tail(s)) ELSE s

RECURSIVE RStrip(_)
RStrip(s) ==
    IF s # <<>> /\ s[Len(s)] = " " THEN RStrip(SubSeq(s, 1, Len(s) - 1)) ELSE s

Strip(s) == RStrip(LStrip(s))

Min(a, b) == IF a <= b THEN a ELSE b

Max(a, b) == IF a >= b THEN a ELSE b

\* Python's s[:n], for any integer n.
Slice(s, n) ==
    IF n >= 0 THEN SubSeq(s, 1, Min(n, Len(s)))
              ELSE SubSeq(s, 1, Max(0, Len(s) + n))

(***************************************************************************)
(* Values of a dict entry that holds a string: a string, JSON null (None), *)
(* or no such key.                                                         *)
(***************************************************************************)
Str(s) == [kind |-> "str", val |-> s]

Null == [kind |-> "null", val |-> <<>>]

Absent == [kind |-> "absent", val |-> <<>>]

\* dict.get(key, default)
DictGet(v, default) == IF v.kind = "absent" THEN default ELSE v

\* A crop dict / CropData row.
Crop(name, sci, src, tmin, tmax, rmin, rmax, season, soils, ph) ==
    [ crop_name |-> name, scientific_name |-> sci, data_source |-> src,
      optimal_temperature_min |-> tmin, optimal_temperature_max |-> tmax,
      optimal_rainfall_min |-> rmin, optimal_rainfall_max |-> rmax,
      growing_season |-> season, soil_type_preference |-> soils,
      ph_range |-> ph ]

\* A ph_range dict: a key that is not there is <<>>.
PhRange(lo, hi) == [min |-> lo, max |-> hi]

(***************************************************************************)
(* Bounds and inputs                                                       *)
(***************************************************************************)
\* Longest data/crops.json the model reads (number of crop dicts).
MaxLocal == 2

BoundedSeqs(S, n) == UNION {[1..k -> S] : k \in 0..n}

\* Crop dicts that data/crops.json may hold (the file is not part of the
\* sources: any JSON list of dicts is a possible content).
JsonWheatSp ==
    Crop(Str(s_Wheat_sp), Str(s_Triticum_Aestivum), "", <<15>>, <<25>>,
         <<500>>, <<1000>>, s_rabi, <<"loamy", "clay_loam">>,
         PhRange(<<60>>, <<75>>))

JsonWheat ==
    Crop(Str(s_wheat), Str(s_triticum_aestivum), "", <<15>>, <<25>>,
         <<500>>, <<1000>>, s_Rabi, <<"loamy", "clay_loam">>,
         PhRange(<<60>>, <<75>>))

JsonCorn ==
    Crop(Str(s_Corn), Str(s_Zea_Mays), "", <<18>>, <<32>>,
         <<800>>, <<1500>>, s_year_round, <<>>, PhRange(<<>>, <<>>))

JsonRice ==
    Crop(Str(s_rice), Null, "", <<20>>, <<35>>,
         <<1500>>, <<3000>>, s_kharif, <<"clay", "clay_loam">>,
         PhRange(<<55>>, <<75>>))

\* A record without the key "crop_name".
JsonNameless ==
    Crop(Absent, Str(s_Zea_Mays), "", <<18>>, <<32>>,
         <<800>>, <<1500>>, s_year_round, <<>>, PhRange(<<>>, <<>>))

JsonCrops == {JsonWheatSp, JsonWheat, JsonCorn, JsonRice, JsonNameless}

\* open("data/crops.json") + json.load: the file cannot be read, or a list.
JsonFiles ==
    {[readable |-> FALSE, crops |-> <<>>]} \cup
    {[readable |-> TRUE, crops |-> c] : c \in BoundedSeqs(JsonCrops, MaxLocal)}

\* What the two remote services do during one fetch.
Nets == {"up", "down"}

(***************************************************************************)
(* Source adapters                                                         *)
(***************************************************************************)
fetch_crops_from_local_database(file) ==
    IF ~file.readable
    THEN <<>>
    ELSE [i \in DOMAIN file.crops |->
            [file.crops[i] EXCEPT !.data_source = "local_database"]]

\* GET plants.usda.gov/api/plants/search?q=crop: raise_for_status() raises, or
\* data["data"] is a list of plants, each given by its "scientificName" entry.
UsdaResponse(net, crop) ==
    IF net = "down"
    THEN [raised |-> TRUE, data |-> <<>>]
    ELSE [raised |-> FALSE,
          data |-> IF crop = s_corn THEN <<Str(s_Zea_mays)>>
                   ELSE IF crop = s_wheat
                        THEN <<Str(s_triticum_aestivum), Absent>>
                        ELSE <<>>]

\* default_ranges.get(crop_name, {...}); the entries of the crops searched
\* after the third one are left out.
usda_default_ranges(crop_name) ==
    CASE crop_name = s_corn ->
            [temp_min |-> 18, temp_max |-> 32, rain_min |-> 800, rain_max |-> 1500]
      [] crop_name = s_soybean ->
            [temp_min |-> 20, temp_max |-> 30, rain_min |-> 600, rain_max |-> 1200]
      [] crop_name = s_wheat ->
            [temp_min |-> 15, temp_max |-> 25, rain_min |-> 500, rain_max |-> 1000]
      [] OTHER ->
            [temp_min |-> 20, temp_max |-> 30, rain_min |-> 600, rain_max |-> 1200]

determine_growing_season(crop_name) ==
    CASE crop_name = s_corn -> s_kharif
      [] crop_name = s_soybean -> s_kharif
      [] crop_name = s_wheat -> s_rabi
      [] OTHER -> s_year_round

convert_usda_to_crop_format(usda_plant, crop_name) ==
    LET ranges == usda_default_ranges(crop_name)
    IN  Crop(Str(crop_name), DictGet(usda_plant, Str(<<>>)), "usda_api",
             <<ranges.temp_min>>, <<ranges.temp_max>>,
             <<ranges.rain_min>>, <<ranges.rain_max>>,
             determine_growing_season(crop_name),
             <<"loamy", "clay_loam">>, PhRange(<<60>>, <<75>>))

RECURSIVE UsdaLoop(_, _, _)
UsdaLoop(crops, net, usda_crops) ==
    IF crops = <<>>
    THEN usda_crops
    ELSE LET crop == Head(crops)
             response == UsdaResponse(net, crop)
             found == IF response.raised
                      THEN <<>>
                      ELSE [i \in DOMAIN response.data |->
                              convert_usda_to_crop_format(response.data[i], crop)]
         IN  UsdaLoop(Tail(crops), net, usda_crops \o found)

\* fetch_crops_from_usda_api with a built-in record when nothing was fetched
FetchUsdaWithDefault(limit, net) ==
    LET usda_crops ==
            UsdaLoop(Slice(usda_crops_to_search, limit \div Len(usda_crops_to_search)),
                     net, <<>>)
    IN  IF usda_crops = <<>>
        THEN <<convert_usda_to_crop_format(Absent, s_corn)>>
        ELSE usda_crops

fetch_crops_from_usda_api(limit, net) ==
    UsdaLoop(Slice(usda_crops_to_search, limit \div Len(usda_crops_to_search)),
             net, <<>>)

\* GET my.plantnet.org/api/v2/species?q=crop: it raises, or data["results"] is a
\* list of results, each given by the scientificNameWithoutAuthor of its genus
\* and of its species.
PlantnetResponse(net, crop) ==
    IF net = "down"
    THEN [raised |-> TRUE, results |-> <<>>]
    ELSE [raised |-> FALSE,
          results |-> IF crop = s_corn
                      THEN <<[genus |-> <<>>, species |-> s_Zea_mays]>>
                      ELSE IF crop = s_chickpea
                           THEN <<[genus |-> s_Cicer, species |-> s_arietinum]>>
                           ELSE <<>>]

mock_plantnet_data ==
    << [genus |-> s_Solanum, species |-> s_Solanum_lycopersicum],
       [genus |-> s_Solanum, species |-> s_Solanum_tuberosum],
       [genus |-> s_Zea, species |-> s_Zea_mays] >>

\* conditions.get(crop_name, default_conditions), for the crops the adapter
\* can return in this model.
get_default_growing_conditions(crop_name) ==
    CASE crop_name = s_tomato ->
            [temp_min |-> 18, temp_max |-> 30, rain_min |-> 600, rain_max |-> 1200,
             soil_types |-> <<"loamy", "sandy_loam">>,
             ph_range |-> PhRange(<<60>>, <<70>>), season |-> s_year_round]
      [] crop_name = s_potato ->
            [temp_min |-> 15, temp_max |-> 25, rain_min |-> 500, rain_max |-> 1000,
             soil_types |-> <<"loamy", "sandy_loam">>,
             ph_range |-> PhRange(<<55>>, <<65>>), season |-> s_rabi]
      [] crop_name = s_corn ->
            [temp_min |-> 18, temp_max |-> 32, rain_min |-> 800, rain_max |-> 1500,
             soil_types |-> <<"loamy", "sandy_loam">>,
             ph_range |-> PhRange(<<55>>, <<75>>), season |-> s_kharif]
      [] crop_name = s_chickpea ->
            [temp_min |-> 20, temp_max |-> 30, rain_min |-> 400, rain_max |-> 800,
             soil_types |-> <<"loamy", "clay_loam">>,
             ph_range |-> PhRange(<<60>>, <<75>>), season |-> s_rabi]
      [] OTHER ->
            [temp_min |-> 20, temp_max |-> 30, rain_min |-> 600, rain_max |-> 1200,
             soil_types |-> <<"loamy", "clay_loam">>,
             ph_range |-> PhRange(<<60>>, <<75>>), season |-> s_year_round]

convert_plantnet_to_crop_format(plantnet_result, crop_name) ==
    LET joined == Strip(plantnet_result.genus \o <<" ">> \o plantnet_result.species)
        scientific_name == IF joined = <<>> THEN plantnet_result.species ELSE joined
        growing_conditions == get_default_growing_conditions(crop_name)
    IN  Crop(Str(crop_name), Str(scientific_name), "plantnet_api",
             <<growing_conditions.temp_min>>, <<growing_conditions.temp_max>>,
             <<growing_conditions.rain_min>>, <<growing_conditions.rain_max>>,
             growing_conditions.season, growing_conditions.soil_types,
             growing_conditions.ph_range)

\* The live loop: the first result of every crop that answers with results.
RECURSIVE PlantnetLoop(_, _, _)
PlantnetLoop(crops, net, plantnet_crops) ==
    IF crops = <<>>
    THEN plantnet_crops
    ELSE LET crop == Head(crops)
             response == PlantnetResponse(net, crop)
             found == IF response.raised \/ response.results = <<>>
                      THEN <<>>
                      ELSE <<convert_plantnet_to_crop_format(response.results[1], crop)>>
         IN  PlantnetLoop(Tail(crops), net, plantnet_crops \o found)

\* fetch_crops_from_plantnet_api with the mock records tagged as mock data
FetchPlantnetTaggingMock(limit, net) ==
    LET live == PlantnetLoop(Slice(plantnet_crops_to_search, limit), net, <<>>)
        mock == Slice(mock_plantnet_data, limit)
    IN  IF live # <<>>
        THEN live
        ELSE [i \in DOMAIN mock |->
                [convert_plantnet_to_crop_format(mock[i], plantnet_crops_to_search[i])
                    EXCEPT !.data_source = "mock_data"]]

fetch_crops_from_plantnet_api(limit, net) ==
    LET live == PlantnetLoop(Slice(plantnet_crops_to_search, limit), net, <<>>)
        mock == Slice(mock_plantnet_data, limit)
    IN  IF live # <<>>
        THEN live
        ELSE [i \in DOMAIN mock |->
                convert_plantnet_to_crop_format(mock[i], plantnet_crops_to_search[i])]

agricultural_crops ==
    << Crop(Str(s_chickpea), Str(s_Cicer_arietinum), "agricultural_api",
            <<20>>, <<30>>, <<400>>, <<800>>, s_rabi,
            <<"loamy", "clay_loam">>, PhRange(<<60>>, <<75>>)),
       Crop(Str(s_lentil), Str(s_Lens_culinaris), "agricultural_api",
            <<18>>, <<28>>, <<300>>, <<600>>, s_rabi,
            <<"loamy", "sandy_loam">>, PhRange(<<60>>, <<75>>)),
       Crop(Str(s_mustard), Str(s_Brassica_juncea), "agricultural_api",
            <<15>>, <<25>>, <<400>>, <<800>>, s_rabi,
            <<"loamy", "clay_loam">>, PhRange(<<60>>, <<75>>)),
       Crop(Str(s_groundnut), Str(s_Arachis_hypogaea), "agricultural_api",
            <<20>>, <<35>>, <<600>>, <<1200>>, s_kharif,
            <<"sandy_loam", "loamy">>, PhRange(<<60>>, <<75>>)),
       Crop(Str(s_onion), Str(s_Allium_cepa), "agricultural_api",
            <<15>>, <<25>>, <<400>>, <<800>>, s_rabi,
            <<"loamy", "sandy_loam">>, PhRange(<<60>>, <<70>>)) >>

fetch_crops_from_agricultural_api(limit) == Slice(agricultural_crops, limit)

(***************************************************************************)
(* Deduplicator / merger                                                   *)
(***************************************************************************)
\* crop.get("crop_name", "") and crop.get("scientific_name", "")
NameOf(crop) == DictGet(crop.crop_name, Str(<<>>))

SciOf(crop) == DictGet(crop.scientific_name, Str(<<>>))

\* (crop.get("crop_name", "").lower(), crop.get("scientific_name", "").lower())
DedupKey(crop) == <<Lower(NameOf(crop).val), Lower(SciOf(crop).val)>>

\* None has no .lower(): building the key raises AttributeError.
DedupKeyRaises(crop) == NameOf(crop).kind = "null" \/ SciOf(crop).kind = "null"

RECURSIVE DedupLoop(_, _, _)
DedupLoop(crops, seen, unique_crops) ==
    IF crops = <<>>
    THEN unique_crops
    ELSE LET crop == Head(crops)
             key == DedupKey(crop)
         IN  IF key \notin seen
             THEN DedupLoop(Tail(crops), seen \cup {key}, Append(unique_crops, crop))
             ELSE DedupLoop(Tail(crops), seen, unique_crops)

remove_duplicate_crops(crops) == DedupLoop(crops, {}, <<>>)

RemoveDuplicatesRaises(crops) == \E i \in DOMAIN crops : DedupKeyRaises(crops[i])

\* The four fetches, in the order of the list `sources`.
AllCrops(limit_per_source, file, usdaNet, plantnetNet) ==
    fetch_crops_from_local_database(file) \o
    fetch_crops_from_usda_api(limit_per_source, usdaNet) \o
    fetch_crops_from_plantnet_api(limit_per_source, plantnetNet) \o
    fetch_crops_from_agricultural_api(limit_per_source)

\* An exception of _remove_duplicate_crops is caught by the outer handler: [].
get_all_crops_from_apis(limit_per_source, file, usdaNet, plantnetNet) ==
    LET all_crops == AllCrops(limit_per_source, file, usdaNet, plantnetNet)
    IN  IF RemoveDuplicatesRaises(all_crops)
        THEN <<>>
        ELSE remove_duplicate_crops(all_crops)

(***************************************************************************)
(* The store: the crop_data table, a sequence of rows in insertion order   *)
(* (SQLite, rows are never deleted, so a new row's id is the row count     *)
(* plus one).                                                              *)
(***************************************************************************)
\* CropDataCreate(**crop_item).dict(): the fields of the schema, an optional
\* field that is not given is None, any other key of the dict is dropped.
CropDataCreate(crop_item) ==
    [ crop_name |-> crop_item.crop_name.val,
      scientific_name |-> IF crop_item.scientific_name.kind = "str"
                          THEN crop_item.scientific_name ELSE Null,
      data_source |-> "",
      optimal_temperature_min |-> crop_item.optimal_temperature_min,
      optimal_temperature_max |-> crop_item.optimal_temperature_max,
      optimal_rainfall_min |-> crop_item.optimal_rainfall_min,
      optimal_rainfall_max |-> crop_item.optimal_rainfall_max,
      growing_season |-> crop_item.growing_season,
      soil_type_preference |-> crop_item.soil_type_preference,
      ph_range |-> crop_item.ph_range ]

\* crop_name: str is required: a missing or null name is a ValidationError.
CropDataCreateRaises(crop_item) == crop_item.crop_name.kind # "str"

\* db.query(CropData).filter(CropData.crop_name == name).first(): <<>> is None.
\* SQLite compares the strings exactly (case and blanks count).
get_crop_by_name(db, name) ==
    LET hits == {i \in DOMAIN db : name.kind = "str" /\ db[i].crop_name = name.val}
    IN  IF hits = {}
        THEN <<>>
        ELSE <<db[CHOOSE i \in hits : \A j \in hits : i <= j]>>

\* The default of get_all_crops' limit parameter.
GetAllCropsLimit == 100

get_all_crops(db) == SubSeq(db, 1, Min(GetAllCropsLimit, Len(db)))

\* create_crop writing over the last row of the table instead of adding one
CreateCropOverwriting(db, crop_in) ==
    IF db = <<>>
    THEN <<[id |-> 1] @@ crop_in>>
    ELSE SubSeq(db, 1, Len(db) - 1) \o <<[id |-> Len(db)] @@ crop_in>>

\* create_crop(db, crop_in=...): add, commit, refresh.
create_crop(db, crop_in) ==
    Append(db, [id |-> Len(db) + 1] @@ crop_in)

(***************************************************************************)
(* scripts/seed_db.py                                                      *)
(***************************************************************************)
\* The loop of seed_database; an exception ends the loop, what was committed
\* before it stays.
RECURSIVE SeedLoopNoLookup(_, _)
SeedLoopNoLookup(items, db) ==
    IF items = <<>>
    THEN db
    ELSE LET crop_item == Head(items)
         IN  IF crop_item.crop_name.kind = "absent" \/ CropDataCreateRaises(crop_item)
             THEN db
             ELSE SeedLoopNoLookup(Tail(items),
                                   create_crop(db, CropDataCreate(crop_item)))

RECURSIVE SeedLoop(_, _)
SeedLoop(items, db) ==
    IF items = <<>>
    THEN db
    ELSE LET crop_item == Head(items)
         IN  IF crop_item.crop_name.kind = "absent"
             THEN db
             ELSE IF get_crop_by_name(db, crop_item.crop_name) # <<>>
                  THEN SeedLoop(Tail(items), db)
                  ELSE IF CropDataCreateRaises(crop_item)
                       THEN db
                       ELSE SeedLoop(Tail(items),
                                     create_crop(db, CropDataCreate(crop_item)))

seed_database(db, file) ==
    IF ~file.readable THEN db ELSE SeedLoop(file.crops, db)

(***************************************************************************)
(* Catalog sync                                                            *)
(***************************************************************************)
\* crop_data.update_crop(self.db, existing_crop.id, crop_data_dict): the class
\* CRUDCropData defines no update_crop, the attribute lookup raises.
CallUpdateCrop(db, crop_id, crop_data_dict) ==
    [raised |-> TRUE, exc |-> "AttributeError", db |-> db, value |-> <<>>]

\* A create_crop call that neither raises nor returns a row
CallCreateCropReturningNone(db, crop_data_dict) ==
    [raised |-> FALSE, exc |-> "", db |-> db, value |-> <<>>]

\* crop_data.create_crop(self.db, crop_data_dict): create_crop(self, db, *,
\* crop_in) takes crop_in by keyword only, the second positional argument
\* raises.
CallCreateCrop(db, crop_data_dict) ==
    [raised |-> TRUE, exc |-> "TypeError", db |-> db, value |-> <<>>]

\* crop_data_dict.get('crop_name', 'unknown') of the error message
ErrorEntry(crop_data_dict, exc) ==
    [crop |-> DictGet(crop_data_dict.crop_name, Str(s_unknown)), exc |-> exc]

\* One turn of the loop of sync_crops_to_database.  acc: the counters, the
\* errors, the store, and the number of update/create calls made.
SyncStep(acc, crop_data_dict) ==
    IF crop_data_dict.crop_name.kind = "absent"
    THEN [acc EXCEPT !.errors = Append(@, ErrorEntry(crop_data_dict, "KeyError"))]
    ELSE LET existing_crop == get_crop_by_name(acc.db, crop_data_dict.crop_name)
             call == IF existing_crop # <<>>
                     THEN CallUpdateCrop(acc.db, existing_crop[1].id, crop_data_dict)
                     ELSE CallCreateCrop(acc.db, crop_data_dict)
             hit == call.value # <<>>
         IN  IF call.raised
             THEN [acc EXCEPT !.errors = Append(@, ErrorEntry(crop_data_dict, call.exc)),
                              !.calls = @ + 1]
             ELSE [acc EXCEPT
                     !.db = call.db,
                     !.calls = @ + 1,
                     !.updated = IF existing_crop # <<>> /\ hit THEN @ + 1 ELSE @,
                     !.added = IF existing_crop = <<>> /\ hit THEN @ + 1 ELSE @]

\* SyncLoop with the try around the loop: the first exception ends the batch.
RECURSIVE SyncLoopAborting(_, _)
SyncLoopAborting(crops, acc) ==
    IF crops = <<>> THEN acc
    ELSE LET next == SyncStep(acc, Head(crops))
         IN  IF Len(next.errors) > Len(acc.errors)
             THEN next
             ELSE SyncLoopAborting(Tail(crops), next)

RECURSIVE SyncLoop(_, _)
SyncLoop(crops, acc) ==
    IF crops = <<>> THEN acc ELSE SyncLoop(Tail(crops), SyncStep(acc, Head(crops)))

sync_crops_to_database(db, crops) ==
    LET acc == SyncLoop(crops, [added |-> 0, updated |-> 0, errors |-> <<>>,
                                db |-> db, calls |-> 0])
    IN  [ result |-> [kind |-> "counts", added |-> acc.added,
                      updated |-> acc.updated, errors |-> acc.errors,
                      total_processed |-> Len(crops)],
          db |-> acc.db, calls |-> acc.calls ]

\* The default of get_all_crops_from_apis' limit_per_source parameter.
DefaultLimitPerSource == 20

\* refresh_crop_database without the `if not crops` test
RefreshWithoutEmptyTest(db, file, usdaNet, plantnetNet) ==
    LET crops == get_all_crops_from_apis(DefaultLimitPerSource, file, usdaNet, plantnetNet)
        sync == sync_crops_to_database(db, crops)
    IN  [ result |-> sync.result, crops |-> crops, sync_invoked |-> TRUE,
          db |-> sync.db, calls |-> sync.calls ]

refresh_crop_database(db, file, usdaNet, plantnetNet) ==
    LET crops == get_all_crops_from_apis(DefaultLimitPerSource, file, usdaNet, plantnetNet)
        sync == sync_crops_to_database(db, crops)
    IN  IF crops = <<>>
        THEN [ result |-> [kind |-> "error", error |-> "No crops fetched from APIs"],
               crops |-> crops, sync_invoked |-> FALSE, db |-> db, calls |-> 0 ]
        ELSE [ result |-> sync.result, crops |-> crops, sync_invoked |-> TRUE,
               db |-> sync.db, calls |-> sync.calls ]

(***************************************************************************)
(* GET /api/crops/fetch: the preview                                       *)
(***************************************************************************)
\* fetch_crops_from_apis with a seeding of the table from the fetched file
FetchAndSeed(db, limit_per_source, file, usdaNet, plantnetNet) ==
    [ sources |->
        [ local_database |-> fetch_crops_from_local_database(file),
          usda_api |-> fetch_crops_from_usda_api(limit_per_source, usdaNet),
          plantnet_api |-> fetch_crops_from_plantnet_api(limit_per_source, plantnetNet),
          agricultural_api |-> fetch_crops_from_agricultural_api(limit_per_source) ],
      all_crops |-> get_all_crops_from_apis(limit_per_source, file, usdaNet, plantnetNet),
      db |-> seed_database(db, file) ]

\* The route: the four fetches, then get_all_crops_from_apis (which fetches
\* again); db is the table when the route returns.
fetch_crops_from_apis(db, limit_per_source, file, usdaNet, plantnetNet) ==
    [ sources |->
        [ local_database |-> fetch_crops_from_local_database(file),
          usda_api |-> fetch_crops_from_usda_api(limit_per_source, usdaNet),
          plantnet_api |-> fetch_crops_from_plantnet_api(limit_per_source, plantnetNet),
          agricultural_api |-> fetch_crops_from_agricultural_api(limit_per_source) ],
      all_crops |-> get_all_crops_from_apis(limit_per_source, file, usdaNet, plantnetNet),
      db |-> db ]

(***************************************************************************)
(* Suitability scoring and ranking                                         *)
(***************************************************************************)
\* Values of a dict entry or parameter that holds a number.
Num(x) == [kind |-> "num", val |-> x]

NullNum == [kind |-> "null", val |-> 0]

AbsentNum == [kind |-> "absent", val |-> 0]

Abs(x) == IF x < 0 THEN -x ELSE x

\* a <= x <= b on optional numbers: comparing with None raises TypeError, and
\* the second comparison is made only if the first one is true.
Between(a, x, b) == a[1] <= x[1] /\ x[1] <= b[1]

BetweenRaises(a, x, b) ==
    a = <<>> \/ x = <<>> \/ (a[1] <= x[1] /\ b = <<>>)

\* _get_current_season
get_current_season(current_month) ==
    IF 6 <= current_month /\ current_month <= 10 THEN s_kharif
    ELSE IF current_month \in {11, 12, 1, 2, 3} THEN s_rabi
    ELSE s_zaid

\* CropService._calculate_crop_suitability, the score in tenths.
ServiceTempScore(crop, temp) ==
    IF Between(crop.optimal_temperature_min, temp, crop.optimal_temperature_max)
    THEN 4
    ELSE IF Abs(temp[1] - crop.optimal_temperature_min[1]) < 5 THEN 2 ELSE 0

ServiceRainScore(crop, rain) ==
    IF Between(crop.optimal_rainfall_min, rain, crop.optimal_rainfall_max)
    THEN 3 ELSE 0

\* ServiceSeasonScore with the season weight 0.4
ServiceSeasonScoreHeavy(crop, season) ==
    IF Lower(crop.growing_season) = season \/ Lower(crop.growing_season) = s_year_round
    THEN 4 ELSE 0

ServiceSeasonScore(crop, season) ==
    IF Lower(crop.growing_season) = season \/ Lower(crop.growing_season) = s_year_round
    THEN 3 ELSE 0

\* calculate_crop_suitability with the season test as an elif of the
\* rainfall test
CalculateSuitabilitySeasonElif(crop, temp, rain, season) ==
    ServiceTempScore(crop, temp)
        + (IF ServiceRainScore(crop, rain) > 0
           THEN ServiceRainScore(crop, rain)
           ELSE ServiceSeasonScore(crop, season))

calculate_crop_suitability(crop, temp, rain, season) ==
    ServiceTempScore(crop, temp) + ServiceRainScore(crop, rain)
        + ServiceSeasonScore(crop, season)

SuitabilityRaises(crop, temp, rain) ==
    \/ BetweenRaises(crop.optimal_temperature_min, temp, crop.optimal_temperature_max)
    \/ BetweenRaises(crop.optimal_rainfall_min, rain, crop.optimal_rainfall_max)

\* SortInsert as an unstable sort: an entry goes in front of the entries of
\* equal score.
RECURSIVE SortInsertUnstable(_, _)
SortInsertUnstable(sorted, x) ==
    IF sorted = <<>> THEN <<x>>
    ELSE IF Head(sorted).suitability_score > x.suitability_score
         THEN <<Head(sorted)>> \o SortInsertUnstable(Tail(sorted), x)
         ELSE <<x>> \o sorted

\* list.sort(key=lambda x: x["suitability_score"], reverse=True): stable, an
\* entry goes behind every entry whose score is not smaller.
RECURSIVE SortInsert(_, _)
SortInsert(sorted, x) ==
    IF sorted = <<>> THEN <<x>>
    ELSE IF Head(sorted).suitability_score >= x.suitability_score
         THEN <<Head(sorted)>> \o SortInsert(Tail(sorted), x)
         ELSE <<x>> \o sorted

RECURSIVE SortByScore(_, _)
SortByScore(recommendations, sorted) ==
    IF recommendations = <<>> THEN sorted
    ELSE SortByScore(Tail(recommendations), SortInsert(sorted, Head(recommendations)))

\* CropService._load_crop_database: {crop.crop_name.lower(): crop}; a dict
\* keeps a key at the place of its first insertion and the value last given.
RECURSIVE LoadLoop(_, _)
LoadLoop(all_crops, database) ==
    IF all_crops = <<>>
    THEN database
    ELSE LET crop == Head(all_crops)
             key == Lower(crop.crop_name)
             at == {i \in DOMAIN database : database[i].key = key}
         IN  LoadLoop(Tail(all_crops),
                      IF at = {}
                      THEN Append(database, [key |-> key, crop |-> crop])
                      ELSE [i \in DOMAIN database |->
                              IF i \in at THEN [key |-> key, crop |-> crop]
                              ELSE database[i]])

load_crop_database(db) == LoadLoop(get_all_crops(db), <<>>)

\* An update that leaves the caller's values in place
UpdateWeatherKeepingCaller(weather_data, live_weather) == weather_data

\* weather_data.update(live_weather)
UpdateWeather(weather_data, live_weather) ==
    IF live_weather = <<>>
    THEN weather_data
    ELSE [temperature |-> Num(live_weather[1].temperature),
          humidity |-> Num(live_weather[1].humidity),
          rainfall |-> Num(0)]

\* A number or None as an optional number.
Opt(v) == IF v.kind = "num" THEN <<v.val>> ELSE <<>>

\* `score > 0.3` of get_crop_recommendations
ServiceKeeps(score) == score > 3

\* The scores of the whole crop_database, in its iteration order.
ServiceScored(crop_database, temperature, rainfall, current_season) ==
    [i \in DOMAIN crop_database |->
        [crop |-> crop_database[i].crop.crop_name,
         suitability_score |->
            calculate_crop_suitability(crop_database[i].crop, temperature,
                                       rainfall, current_season)]]

\* The loop of get_crop_recommendations: an entry is appended if it is kept.
RECURSIVE ServiceLoop(_)
ServiceLoop(scored) ==
    IF scored = <<>> THEN <<>>
    ELSE (IF ServiceKeeps(Head(scored).suitability_score)
          THEN <<Head(scored)>> ELSE <<>>) \o ServiceLoop(Tail(scored))

\* CropService.get_crop_recommendations.  live_weather is what
\* get_live_weather returned (<<>> is None), has_location says that latitude
\* and longitude are both given.
get_crop_recommendations(db, weather_data, has_location, live_weather, current_month) ==
    LET crop_database == load_crop_database(db)
        weather_used == IF has_location
                        THEN UpdateWeather(weather_data, live_weather)
                        ELSE weather_data
        temperature == Opt(DictGet(weather_used.temperature, Num(25)))
        rainfall == Opt(DictGet(weather_used.rainfall, Num(0)))
        current_season == get_current_season(current_month)
        raised == \E i \in DOMAIN crop_database :
                     SuitabilityRaises(crop_database[i].crop, temperature, rainfall)
        scored == ServiceScored(crop_database, temperature, rainfall, current_season)
    IN  IF raised
        THEN [raised |-> TRUE, scored |-> <<>>, recommendations |-> <<>>,
              current_season |-> current_season, weather_used |-> weather_used]
        ELSE [raised |-> FALSE, scored |-> scored,
              recommendations |-> SortByScore(ServiceLoop(scored), <<>>),
              current_season |-> current_season, weather_used |-> weather_used]

\* /recommendations/enhanced: the four factors of one crop, in tenths.
EnhancedTemp(crop, temperature) ==
    IF Between(crop.optimal_temperature_min, temperature, crop.optimal_temperature_max)
    THEN [score |-> 3, factor |-> "temperature_optimal"]
    ELSE IF \/ Abs(temperature[1] - crop.optimal_temperature_min[1]) <= 5
            \/ Abs(temperature[1] - crop.optimal_temperature_max[1]) <= 5
         THEN [score |-> 2, factor |-> "temperature_acceptable"]
         ELSE [score |-> 0, factor |-> "temperature_poor"]

EnhancedRain(crop, rainfall) ==
    IF Between(crop.optimal_rainfall_min, rainfall, crop.optimal_rainfall_max)
    THEN [score |-> 3, factor |-> "rainfall_optimal"]
    ELSE IF \/ Abs(rainfall[1] - crop.optimal_rainfall_min[1]) <= 200
            \/ Abs(rainfall[1] - crop.optimal_rainfall_max[1]) <= 200
         THEN [score |-> 2, factor |-> "rainfall_acceptable"]
         ELSE [score |-> 0, factor |-> "rainfall_poor"]

\* `if soil_type and crop.soil_type_preference`: None, "" and [] are false.
EnhancedSoil(crop, soil_type) ==
    IF soil_type # <<>> /\ soil_type[1] # "" /\ crop.soil_type_preference # <<>>
    THEN IF \E i \in DOMAIN crop.soil_type_preference :
                crop.soil_type_preference[i] = soil_type[1]
         THEN [score |-> 2, factors |-> <<"soil_optimal">>]
         ELSE [score |-> 0, factors |-> <<"soil_suboptimal">>]
    ELSE [score |-> 0, factors |-> <<>>]

\* `if ph_level and crop.ph_range`: None, 0.0 and {} are false;
\* ph_range.get("min", 0) and ph_range.get("max", 14), in tenths.
EnhancedPh(crop, ph_level) ==
    LET ph_min == IF crop.ph_range.min = <<>> THEN 0 ELSE crop.ph_range.min[1]
        ph_max == IF crop.ph_range.max = <<>> THEN 140 ELSE crop.ph_range.max[1]
    IN  IF ph_level # <<>> /\ ph_level[1] # 0
           /\ ~(crop.ph_range.min = <<>> /\ crop.ph_range.max = <<>>)
        THEN IF ph_min <= ph_level[1] /\ ph_level[1] <= ph_max
             THEN [score |-> 2, factors |-> <<"ph_optimal">>]
             ELSE [score |-> 0, factors |-> <<"ph_suboptimal">>]
        ELSE [score |-> 0, factors |-> <<>>]

EnhancedScore(crop, temperature, rainfall, soil_type, ph_level) ==
    LET t == EnhancedTemp(crop, temperature)
        r == EnhancedRain(crop, rainfall)
        s == EnhancedSoil(crop, soil_type)
        p == EnhancedPh(crop, ph_level)
    IN  [crop |-> crop.crop_name,
         suitability_score |-> t.score + r.score + s.score + p.score,
         factors |-> <<t.factor, r.factor>> \o s.factors \o p.factors]

\* Where the abs() of the elif is computed with None.
EnhancedRaises(crop, temperature, rainfall) ==
    \/ BetweenRaises(crop.optimal_temperature_min, temperature, crop.optimal_temperature_max)
    \/ BetweenRaises(crop.optimal_rainfall_min, rainfall, crop.optimal_rainfall_max)
    \/ (~Between(crop.optimal_temperature_min, temperature, crop.optimal_temperature_max)
        /\ Abs(temperature[1] - crop.optimal_temperature_min[1]) > 5
        /\ crop.optimal_temperature_max = <<>>)
    \/ (~Between(crop.optimal_rainfall_min, rainfall, crop.optimal_rainfall_max)
        /\ Abs(rainfall[1] - crop.optimal_rainfall_min[1]) > 200
        /\ crop.optimal_rainfall_max = <<>>)

\* EnhancedKeeps with the threshold 0.2
EnhancedKeepsLow(score) == score >= 2

\* `score >= 0.3` of the enhanced endpoint
EnhancedKeeps(score) == score >= 3

RECURSIVE EnhancedLoop(_)
EnhancedLoop(scored) ==
    IF scored = <<>> THEN <<>>
    ELSE (IF EnhancedKeeps(Head(scored).suitability_score)
          THEN <<Head(scored)>> ELSE <<>>) \o EnhancedLoop(Tail(scored))

get_enhanced_crop_recommendations(db, temperature, rainfall, soil_type, ph_level) ==
    LET all_crops == get_all_crops(db)
        raised == \E i \in DOMAIN all_crops :
                     EnhancedRaises(all_crops[i], temperature, rainfall)
        scored == [i \in DOMAIN all_crops |->
                     EnhancedScore(all_crops[i], temperature, rainfall, soil_type, ph_level)]
    IN  IF raised
        THEN [raised |-> TRUE, scored |-> <<>>, recommendations |-> <<>>]
        ELSE [raised |-> FALSE, scored |-> scored,
              recommendations |-> SortByScore(EnhancedLoop(scored), <<>>)]

(***************************************************************************)
(* The state machine.  store is the crop_data table; out is the result of  *)
(* the operation that ran last, with the inputs it ran on ("idle" once its *)
(* result has been handed to the caller).  The handlers run one at a time. *)
(***************************************************************************)
Temperatures == {12, 22, 27, 30, 40}

Rainfalls == {0, 700, 1200}

Months == 1..12

WeatherTemperatures == {AbsentNum, NullNum} \cup {Num(t) : t \in Temperatures}

WeatherRainfalls == {AbsentNum} \cup {Num(r) : r \in Rainfalls}

\* What get_live_weather returns: None, or a reading (its rainfall is always 0).
LiveWeathers == {<<>>} \cup {<<[temperature |-> t, humidity |-> 60]>> : t \in {22, 40}}

SoilTypes == {<<>>, <<"clay">>, <<"loamy">>}

PhLevels == {<<>>, <<0>>, <<65>>, <<80>>}

Idle == [op |-> "idle"]

Init ==
    /\ store = <<>>
    /\ out = Idle

\* python scripts/seed_db.py
Seed ==
    /\ out.op = "idle"
    /\ \E file \in JsonFiles :
          /\ store' = seed_database(store, file)
          /\ out' = [op |-> "seed", db_before |-> store, file |-> file]

\* GET /api/crops/refresh: CropAPIService.refresh_crop_database
Refresh ==
    /\ out.op = "idle"
    /\ \E file \in JsonFiles, usdaNet \in Nets, plantnetNet \in Nets :
          LET r == refresh_crop_database(store, file, usdaNet, plantnetNet)
          IN  /\ store' = r.db
              /\ out' = [ op |-> "refresh",
                          db_before |-> store,
                          all_crops |-> AllCrops(DefaultLimitPerSource, file,
                                                 usdaNet, plantnetNet),
                          crops |-> r.crops,
                          result |-> r.result,
                          sync_invoked |-> r.sync_invoked,
                          calls |-> r.calls ]

\* CropService(db).get_crop_recommendations(weather_data, latitude, longitude)
Recommend ==
    /\ out.op = "idle"
    /\ \E temperature \in WeatherTemperatures, rainfall \in WeatherRainfalls,
          has_location \in BOOLEAN, live_weather \in LiveWeathers,
          current_month \in Months :
          LET weather_data == [temperature |-> temperature, rainfall |-> rainfall,
                               humidity |-> AbsentNum]
              r == get_crop_recommendations(store, weather_data, has_location,
                                            live_weather, current_month)
          IN  /\ (~has_location => live_weather = <<>>)
              /\ store' = store
              /\ out' = [ op |-> "recommend",
                          weather_data |-> weather_data,
                          has_location |-> has_location,
                          live_weather |-> live_weather ] @@ r

\* GET /api/crops/recommendations/enhanced
Enhanced ==
    /\ out.op = "idle"
    /\ \E temperature \in Temperatures, rainfall \in Rainfalls,
          soil_type \in SoilTypes, ph_level \in PhLevels :
          LET r == get_enhanced_crop_recommendations(store, <<temperature>>,
                                                     <<rainfall>>, soil_type, ph_level)
          IN  /\ store' = store
              /\ out' = [ op |-> "enhanced",
                          temperature |-> temperature, rainfall |-> rainfall,
                          soil_type |-> soil_type, ph_level |-> ph_level ] @@ r

\* The values of the query parameter limit_per_source (default 20).
PreviewLimits == {0, 2, DefaultLimitPerSource}

\* GET /api/crops/fetch
Preview ==
    /\ out.op = "idle"
    /\ \E limit_per_source \in PreviewLimits, file \in JsonFiles,
          usdaNet \in Nets, plantnetNet \in Nets :
          LET r == fetch_crops_from_apis(store, limit_per_source, file,
                                         usdaNet, plantnetNet)
          IN  /\ store' = r.db
              /\ out' = [ op |-> "preview",
                          db_before |-> store,
                          limit_per_source |-> limit_per_source,
                          file |-> file,
                          usdaNet |-> usdaNet,
                          plantnetNet |-> plantnetNet,
                          sources |-> r.sources,
                          all_crops |-> r.all_crops ]

\* The result is returned to the caller.
Return ==
    /\ out.op # "idle"
    /\ out' = Idle
    /\ store' = store

Next == Seed \/ Refresh \/ Preview \/ Recommend \/ Enhanced \/ Return

Spec == Init /\ [][Next]_vars

(***************************************************************************)
(* get_all_crops_from_apis one await at a time.  out holds the call: its   *)
(* inputs, the time each fetch still takes once it is awaited, the sources *)
(* awaited so far (in the order their fetches completed), all_crops, and   *)
(* the merged catalog once the call has returned.                          *)
(***************************************************************************)
\* Longest time a fetch takes, in ticks.
MaxLatency == 1

\* The list `sources`: the names, in the order of the list.
sources == <<"local_database", "usda_api", "plantnet_api", "agricultural_api">>

\* The agricultural adapter has no upstream: it takes no time.
Latencies ==
    {l \in [{sources[i] : i \in DOMAIN sources} -> 0..MaxLatency] :
        l["agricultural_api"] = 0}

\* `await fetch_task` of a source
FetchTask(source_name, limit, file, usdaNet, plantnetNet) ==
    CASE source_name = "local_database" -> fetch_crops_from_local_database(file)
      [] source_name = "usda_api" -> fetch_crops_from_usda_api(limit, usdaNet)
      [] source_name = "plantnet_api" -> fetch_crops_from_plantnet_api(limit, plantnetNet)
      [] source_name = "agricultural_api" -> fetch_crops_from_agricultural_api(limit)

\* The loop taking the fetches as they complete (asyncio.as_completed): the
\* fetch that has the least time left, the first of the list among equals.
AwaitedFastest(done, remaining) ==
    LET left == {i \in DOMAIN sources : \A k \in DOMAIN done : done[k] # sources[i]}
        i == CHOOSE i \in left :
                \A j \in left :
                    \/ remaining[sources[i]] < remaining[sources[j]]
                    \/ (remaining[sources[i]] = remaining[sources[j]] /\ i <= j)
    IN  sources[i]

\* `for source_name, fetch_task in sources`: the coroutines run when they are
\* awaited, one after the other in the order of the list.
AwaitedNext(done, remaining) == sources[Len(done) + 1]

InitGetAll ==
    /\ store = <<>>
    /\ \E file \in JsonFiles, usdaNet \in Nets, plantnetNet \in Nets,
          latency \in Latencies :
          out = [ op |-> "get_all",
                  limit_per_source |-> DefaultLimitPerSource,
                  file |-> file, usdaNet |-> usdaNet, plantnetNet |-> plantnetNet,
                  latency |-> latency, remaining |-> latency,
                  done |-> <<>>, all_crops |-> <<>>,
                  returned |-> FALSE, crops |-> <<>> ]

\* Time passes while the awaited fetch is running.
AwaitTick ==
    /\ out.op = "get_all" /\ Len(out.done) < Len(sources)
    /\ LET source_name == AwaitedNext(out.done, out.remaining)
       IN  /\ out.remaining[source_name] > 0
           /\ out' = [out EXCEPT !.remaining[source_name] = @ - 1]
    /\ store' = store

\* The awaited fetch completes: all_crops.extend(crops)
AwaitDone ==
    /\ out.op = "get_all" /\ Len(out.done) < Len(sources)
    /\ LET source_name == AwaitedNext(out.done, out.remaining)
       IN  /\ out.remaining[source_name] = 0
           /\ out' = [out EXCEPT
                        !.done = Append(@, source_name),
                        !.all_crops = @ \o FetchTask(source_name, out.limit_per_source,
                                                     out.file, out.usdaNet,
                                                     out.plantnetNet)]
    /\ store' = store

\* _remove_duplicate_crops(all_crops) and the return; [] if it raised.
MergeFetched ==
    /\ out.op = "get_all" /\ Len(out.done) = Len(sources) /\ ~out.returned
    /\ out' = [out EXCEPT
                 !.returned = TRUE,
                 !.crops = IF RemoveDuplicatesRaises(out.all_crops)
                           THEN <<>>
                           ELSE remove_duplicate_crops(out.all_crops)]
    /\ store' = store

NextGetAll == AwaitTick \/ AwaitDone \/ MergeFetched

SpecGetAll == InitGetAll /\ [][NextGetAll]_vars

(***************************************************************************)
(* The recommendation handlers on a table seeded from a crops.json whose   *)
(* crops leave bounds out (the schema's Optional[float] = None).           *)
(***************************************************************************)
\* A crop without rainfall bounds.
JsonTomatoNoRain ==
    Crop(Str(s_tomato), Str(s_Solanum_lycopersicum), "", <<18>>, <<30>>,
         <<>>, <<>>, s_year_round, <<"loamy">>, PhRange(<<60>>, <<70>>))

\* A crop without the upper temperature bound.
JsonPotatoNoTempMax ==
    Crop(Str(s_potato), Str(s_Solanum_tuberosum), "", <<15>>, <<>>,
         <<500>>, <<1000>>, s_rabi, <<"loamy">>, PhRange(<<55>>, <<65>>))

ScoringFiles ==
    {[readable |-> TRUE, crops |-> c] :
        c \in BoundedSeqs({JsonTomatoNoRain, JsonPotatoNoTempMax, JsonWheat}, MaxLocal)}

\* The table after python scripts/seed_db.py has run on the file.
InitScoring ==
    /\ out = Idle
    /\ \E file \in ScoringFiles : store = seed_database(<<>>, file)

NextScoring == Recommend \/ Enhanced \/ Return

SpecScoring == InitScoring /\ [][NextScoring]_vars

(***************************************************************************)
(* A refresh and a recommendation request served by one event loop.  The   *)
(* coroutines change places at their awaits only.  out holds both: the     *)
(* refresh's inputs, its place (refresh_pc), the sources awaited, the      *)
(* merged catalog, the loop of sync (acc, and pos: the profiles handled so *)
(* far) and its result; the request's place (rec_pc), the rows its         *)
(* CropService loaded, and where the refresh was at that moment.           *)
(***************************************************************************)
\* A loop of sync that awaits after every profile
SyncTurnOneRecord(crops, pos) == 1

\* The profiles the loop of sync_crops_to_database handles before another
\* coroutine can run: the loop has no await, so all that are left.
SyncTurnLength(crops, pos) == Len(crops) - pos

\* The table is the one seeded from the crops.json that the refresh reads.
InitInterleave ==
    /\ \E file \in JsonFiles, usdaNet \in Nets, plantnetNet \in Nets :
          /\ store = seed_database(<<>>, file)
          /\ out = [ op |-> "interleave",
                     file |-> file, usdaNet |-> usdaNet, plantnetNet |-> plantnetNet,
                     refresh_pc |-> "fetching",
                     done |-> <<>>, all_crops |-> <<>>, crops |-> <<>>,
                     db_before |-> store,
                     acc |-> [added |-> 0, updated |-> 0, errors |-> <<>>,
                              db |-> store, calls |-> 0],
                     pos |-> 0,
                     result |-> [kind |-> "none"],
                     rec_pc |-> "waiting",
                     snapshot |-> <<>>,
                     loaded_pc |-> "", loaded_done |-> 0, loaded_pos |-> 0,
                     recommendation |-> [raised |-> FALSE] ]

\* refresh: `crops = await fetch_task` of the next source
RefreshFetch ==
    /\ out.op = "interleave" /\ out.refresh_pc = "fetching"
    /\ Len(out.done) < Len(sources)
    /\ LET source_name == AwaitedNext(out.done, <<>>)
       IN  out' = [out EXCEPT
                     !.done = Append(@, source_name),
                     !.all_crops = @ \o FetchTask(source_name, DefaultLimitPerSource,
                                                  out.file, out.usdaNet,
                                                  out.plantnetNet)]
    /\ store' = store

\* refresh: the merge, the `if not crops` test, and the call of sync
RefreshMerge ==
    /\ out.op = "interleave" /\ out.refresh_pc = "fetching"
    /\ Len(out.done) = Len(sources)
    /\ LET crops == IF RemoveDuplicatesRaises(out.all_crops)
                    THEN <<>>
                    ELSE remove_duplicate_crops(out.all_crops)
       IN  out' = IF crops = <<>>
                  THEN [out EXCEPT
                          !.refresh_pc = "done",
                          !.result = [kind |-> "error",
                                      error |-> "No crops fetched from APIs"]]
                  ELSE [out EXCEPT !.refresh_pc = "syncing", !.crops = crops]
    /\ store' = store

\* refresh: the loop of sync_crops_to_database until it gives way, and the
\* return once the last profile is handled
RefreshSync ==
    /\ out.op = "interleave" /\ out.refresh_pc = "syncing"
    /\ LET n == SyncTurnLength(out.crops, out.pos)
           acc == SyncLoop(SubSeq(out.crops, out.pos + 1, out.pos + n), out.acc)
           last == out.pos + n = Len(out.crops)
       IN  /\ store' = acc.db
           /\ out' = [out EXCEPT
                        !.acc = acc,
                        !.pos = @ + n,
                        !.refresh_pc = IF last THEN "done" ELSE @,
                        !.result = IF last
                                   THEN [kind |-> "counts", added |-> acc.added,
                                         updated |-> acc.updated,
                                         errors |-> acc.errors,
                                         total_processed |-> Len(out.crops)]
                                   ELSE @]

\* the request: CropService(db) reads the table
RecommendLoad ==
    /\ out.op = "interleave" /\ out.rec_pc = "waiting"
    /\ out' = [out EXCEPT
                 !.rec_pc = "weather",
                 !.snapshot = get_all_crops(store),
                 !.loaded_pc = out.refresh_pc,
                 !.loaded_done = Len(out.done),
                 !.loaded_pos = out.pos]
    /\ store' = store

\* the request: get_live_weather has answered, the loaded crops are scored
RecommendScore ==
    /\ out.op = "interleave" /\ out.rec_pc = "weather"
    /\ \E live_weather \in LiveWeathers, current_month \in {1, 7} :
          out' = [out EXCEPT
                    !.rec_pc = "done",
                    !.recommendation =
                        get_crop_recommendations(
                            out.snapshot,
                            [temperature |-> NullNum, rainfall |-> Num(0),
                             humidity |-> Num(60)],
                            TRUE, live_weather, current_month)]
    /\ store' = store

NextInterleave ==
    RefreshFetch \/ RefreshMerge \/ RefreshSync \/ RecommendLoad \/ RecommendScore

SpecInterleave == InitInterleave /\ [][NextInterleave]_vars

(***************************************************************************)
(* Properties                                                              *)
(***************************************************************************)
\* The canonical key of a crop dict: name and scientific name, each trimmed
\* and lower-cased.
CanonicalKey(crop) ==
    <<Lower(Strip(NameOf(crop).val)), Lower(Strip(SciOf(crop).val))>>

\* The operation that ran last was a recommendation that returned a list.
Ranked == out.op \in {"recommend", "enhanced"} /\ ~out.raised

\* The places of `scored` (the catalog, in iteration order) that hold crop c.
PlacesOf(c) == {i \in DOMAIN out.scored : out.scored[i].crop = c}

\* C1: the output of the merger holds no two profiles with the same canonical
\* key (name and scientific name, each trimmed and lower-cased).
C1_MergedKeysUnique ==
    out.op = "refresh" =>
        \A i, j \in DOMAIN out.crops :
            i # j => CanonicalKey(out.crops[i]) # CanonicalKey(out.crops[j])

\* C2: the sources are combined in the order local_database, usda_api,
\* plantnet_api, agricultural_api, and for each canonical key the merged
\* catalog holds exactly one profile: the first one met in that order, field
\* for field.
C2_FirstProfileOfEachKeyKept ==
    out.op = "refresh" /\ ~RemoveDuplicatesRaises(out.all_crops) =>
        \A i \in DOMAIN out.all_crops :
            LET key == CanonicalKey(out.all_crops[i])
                first == CHOOSE k \in DOMAIN out.all_crops :
                            /\ CanonicalKey(out.all_crops[k]) = key
                            /\ \A m \in DOMAIN out.all_crops :
                                  CanonicalKey(out.all_crops[m]) = key => k <= m
                kept == {k \in DOMAIN out.crops : CanonicalKey(out.crops[k]) = key}
            IN  /\ Cardinality(kept) = 1
                /\ \A k \in kept : out.crops[k] = out.all_crops[first]

\* C3: every score either scorer computes lies in [0, 1] (0..10 tenths).
C3_ScoreInUnitInterval ==
    Ranked =>
        \A i \in DOMAIN out.scored :
            /\ 0 <= out.scored[i].suitability_score
            /\ out.scored[i].suitability_score <= 10

\* C3 witness: the enhanced scorer gave a crop all four weights.
C3_Witness ==
    /\ out.op = "enhanced" /\ ~out.raised
    /\ \E i \in DOMAIN out.scored : out.scored[i].suitability_score = 10

\* C4: a crop whose computed score is below 0.3 is not in the returned list.
C4_BelowThresholdNeverReturned ==
    Ranked =>
        \A i \in DOMAIN out.scored :
            out.scored[i].suitability_score < 3 =>
                \A j \in DOMAIN out.recommendations :
                    out.recommendations[j].crop # out.scored[i].crop

\* C4 witness: a ranking that dropped a crop scored below 0.3 and kept another.
C4_Witness ==
    /\ Ranked
    /\ out.recommendations # <<>>
    /\ \E i \in DOMAIN out.scored : out.scored[i].suitability_score = 2

\* C5: every crop whose computed score is at least 0.3 (0.3 included) is in
\* the returned list, on both recommendation paths.
C5_AtThresholdAlwaysReturned ==
    Ranked =>
        \A i \in DOMAIN out.scored :
            out.scored[i].suitability_score >= 3 =>
                \E j \in DOMAIN out.recommendations :
                    out.recommendations[j] = out.scored[i]

\* C6: the returned list is in non-increasing order of score, and entries of
\* equal score keep the order they have in the catalog iteration.
C6_SortedDescendingAndStable ==
    Ranked =>
        \A i, j \in DOMAIN out.recommendations :
            i < j =>
                LET a == out.recommendations[i]
                    b == out.recommendations[j]
                IN  /\ a.suitability_score >= b.suitability_score
                    /\ a.suitability_score = b.suitability_score =>
                          \A m \in PlacesOf(a.crop), n \in PlacesOf(b.crop) : m < n

\* C6 witness: a returned list with two entries of equal score and a third
\* entry that the sort moved in front of them.
C6_Witness ==
    /\ Ranked
    /\ Len(out.recommendations) >= 3
    /\ \E i, j \in DOMAIN out.recommendations :
          /\ i < j
          /\ out.recommendations[i].suitability_score
                = out.recommendations[j].suitability_score
    /\ \E i, j \in DOMAIN out.recommendations :
          /\ i < j
          /\ \E m \in PlacesOf(out.recommendations[i].crop),
                n \in PlacesOf(out.recommendations[j].crop) : n < m

\* C7: when the aggregation step yields no profile (in particular when every
\* adapter yields an empty list) refresh_crop_database returns exactly
\* {"error": "No crops fetched from APIs"}, does not call
\* sync_crops_to_database, attempts no insert or update, and leaves the store
\* as it was.
C7_EmptyCatalogIsAnError ==
    out.op = "refresh" /\ out.crops = <<>> =>
        /\ out.result = [kind |-> "error", error |-> "No crops fetched from APIs"]
        /\ ~out.sync_invoked
        /\ out.calls = 0
        /\ store = out.db_before

\* C7 witness: a refresh over a store that holds crops fetched nothing.
C7_Witness ==
    /\ out.op = "refresh"
    /\ out.crops = <<>>
    /\ out.db_before # <<>>

\* C8: a sync upserts every profile: afterwards every profile of the catalog
\* is in the store under its name, and added + updated is the catalog size.
C8_SyncUpsertsEveryProfile ==
    out.op = "refresh" /\ out.sync_invoked =>
        /\ \A i \in DOMAIN out.crops :
              \E k \in DOMAIN store :
                  Str(store[k].crop_name) = out.crops[i].crop_name
        /\ out.result.kind = "counts"
        /\ out.result.added + out.result.updated = Len(out.crops)

\* Processing crop_data_dict against the store db raises.
ProcessingRaises(db, crop_data_dict) ==
    \/ crop_data_dict.crop_name.kind = "absent"
    \/ LET existing_crop == get_crop_by_name(db, crop_data_dict.crop_name)
       IN  IF existing_crop # <<>>
           THEN CallUpdateCrop(db, existing_crop[1].id, crop_data_dict).raised
           ELSE CallCreateCrop(db, crop_data_dict).raised

\* C9: every profile whose processing raises gets one entry in errors, in
\* batch order, the profiles after it are still processed, and the call
\* returns the counts with total_processed equal to the catalog size.
C9_PerRecordFailureIsRecorded ==
    out.op = "refresh" /\ out.sync_invoked =>
        LET Failed(d) == ProcessingRaises(out.db_before, d)
            failed == SelectSeq(out.crops, Failed)
        IN  /\ out.result.kind = "counts"
            /\ out.result.total_processed = Len(out.crops)
            /\ Len(out.result.errors) = Len(failed)
            /\ \A i \in DOMAIN failed :
                  out.result.errors[i].crop = DictGet(failed[i].crop_name, Str(s_unknown))

\* C9 witness: a sync in which a profile raised and a later one was processed
\* (and raised as well).
C9_Witness ==
    /\ out.op = "refresh"
    /\ out.sync_invoked
    /\ out.result.kind = "counts"
    /\ Len(out.result.errors) >= 2
    /\ out.result.total_processed = Len(out.crops)

\* The canonical key of a stored row.
KeyOfRow(row) ==
    <<Lower(Strip(row.crop_name)), Lower(Strip(row.scientific_name.val))>>

StoreKeysUnique(db) ==
    \A i, j \in DOMAIN db : i # j => KeyOfRow(db[i]) # KeyOfRow(db[j])

\* The profiles of the catalog whose canonical key is the key of a stored row.
Colliding(db, crops) ==
    {i \in DOMAIN crops : \E k \in DOMAIN db : KeyOfRow(db[k]) = CanonicalKey(crops[i])}

\* C10: a refresh of a store with unique canonical keys leaves the keys
\* unique, and every profile that collides with a stored row is merged into
\* that row (counted as updated).
C10_CollidingProfileMerged ==
    out.op = "refresh" /\ out.sync_invoked /\ StoreKeysUnique(out.db_before) =>
        /\ StoreKeysUnique(store)
        /\ out.result.kind = "counts"
        /\ out.result.updated >= Cardinality(Colliding(out.db_before, out.crops))

\* The crop names of the rows of a table.
StoreNames(db) == {db[i].crop_name : i \in DOMAIN db}

\* C11: no operation (seed, refresh with its sync, preview, recommend,
\* enhanced recommend) deletes a crop: every crop name that is in the store
\* before a step is in the store after it.
C11_NoCropEverDeleted ==
    [][StoreNames(store) \subseteq StoreNames(store')]_vars

\* C11 witness: a refresh has run its sync on a store that holds two crops,
\* and both are still there.
C11_Witness ==
    /\ out.op = "refresh"
    /\ out.sync_invoked
    /\ Len(out.db_before) = 2
    /\ StoreNames(out.db_before) \subseteq StoreNames(store)

\* A source of the preview failed: the file could not be read, or every
\* request to the service failed.
LocalFailed == out.op = "preview" /\ ~out.file.readable

UsdaFailed == out.op = "preview" /\ out.usdaNet = "down"

PlantnetFailed == out.op = "preview" /\ out.plantnetNet = "down"

\* What the four sources of the preview returned, in the order of the merge.
Fetched ==
    out.sources.local_database \o out.sources.usda_api \o
    out.sources.plantnet_api \o out.sources.agricultural_api

\* C12: when a source fails, get_all_crops_from_apis still returns the
\* deduplicated profiles of the sources: every profile a source returned has a
\* profile of its key in the merged catalog.
C12_SourceFailureKeepsOtherSources ==
    (LocalFailed \/ UsdaFailed \/ PlantnetFailed) =>
        \A i \in DOMAIN Fetched :
            \E j \in DOMAIN out.all_crops :
                DedupKey(out.all_crops[j]) = DedupKey(Fetched[i])

\* C13 as claimed: a source whose upstream fails on every request contributes
\* an empty list, the local file, USDA and PlantNet alike.
C13_FailedSourceContributesNothing ==
    /\ LocalFailed => out.sources.local_database = <<>>
    /\ UsdaFailed => out.sources.usda_api = <<>>
    /\ PlantnetFailed => out.sources.plantnet_api = <<>>

\* C13 as amended: the local file and USDA contribute an empty list; PlantNet
\* contributes its built-in fallback records instead, the first
\* min(limit, 3) of them, named after the first crops searched.
C13_FailedSourceContributesNothingOrFallback ==
    /\ LocalFailed => out.sources.local_database = <<>>
    /\ UsdaFailed => out.sources.usda_api = <<>>
    /\ PlantnetFailed =>
          /\ Len(out.sources.plantnet_api) = Min(out.limit_per_source, 3)
          /\ \A i \in DOMAIN out.sources.plantnet_api :
                /\ out.sources.plantnet_api[i].crop_name = Str(plantnet_crops_to_search[i])
                /\ out.sources.plantnet_api[i].scientific_name.val
                      \in {s_Solanum \o <<" ">> \o s_Solanum_lycopersicum,
                           s_Solanum \o <<" ">> \o s_Solanum_tuberosum,
                           s_Zea \o <<" ">> \o s_Zea_mays}

\* C13 witness: all three upstreams failed in one preview: nothing from the
\* file and from USDA, three fallback records from PlantNet.
C13_Witness ==
    /\ LocalFailed /\ UsdaFailed /\ PlantnetFailed
    /\ out.sources.local_database = <<>>
    /\ out.sources.usda_api = <<>>
    /\ Len(out.sources.plantnet_api) = 3

\* C14: every record the PlantNet adapter returns has data_source
\* "plantnet_api", the records built from a live response and the records
\* built from the built-in fallback alike.
C14_PlantnetRecordsTaggedAlike ==
    out.op = "preview" =>
        \A i \in DOMAIN out.sources.plantnet_api :
            out.sources.plantnet_api[i].data_source = "plantnet_api"

\* C14 witness: PlantNet was down and the adapter returned its fallback
\* records.
C14_Witness ==
    /\ PlantnetFailed
    /\ out.sources.plantnet_api # <<>>
    /\ \A i \in DOMAIN out.sources.plantnet_api :
          out.sources.plantnet_api[i].data_source = "plantnet_api"

\* C16: the preview leaves the store as it was.
C16_PreviewLeavesStoreUnchanged ==
    out.op = "preview" => store = out.db_before

\* C16 witness: a preview that fetched crops ran on a store that holds crops,
\* among them a crop of the file it fetched.
C16_Witness ==
    /\ out.op = "preview"
    /\ out.all_crops # <<>>
    /\ store # <<>>
    /\ store = out.db_before
    /\ out.file.readable
    /\ \E i \in DOMAIN out.file.crops :
          out.file.crops[i].crop_name.val \notin StoreNames(store)

\* C15: whatever time the fetches take, the call returns the catalog merged
\* in the order local, USDA, PlantNet, agricultural: of two profiles of one
\* key, the one of the earlier source of that order is the one kept.
C15_CatalogIndependentOfTiming ==
    out.op = "get_all" /\ out.returned =>
        LET fetched ==
                fetch_crops_from_local_database(out.file) \o
                fetch_crops_from_usda_api(out.limit_per_source, out.usdaNet) \o
                fetch_crops_from_plantnet_api(out.limit_per_source, out.plantnetNet) \o
                fetch_crops_from_agricultural_api(out.limit_per_source)
        IN  /\ out.done = sources
            /\ out.crops = IF RemoveDuplicatesRaises(fetched)
                           THEN <<>>
                           ELSE remove_duplicate_crops(fetched)

\* C15 witness: USDA took longer than PlantNet, both returned a profile of
\* corn / Zea mays, and the catalog holds the profile of USDA only.
C15_Witness ==
    /\ out.op = "get_all" /\ out.returned
    /\ out.latency["usda_api"] > out.latency["plantnet_api"]
    /\ \E i \in DOMAIN out.all_crops, j \in DOMAIN out.all_crops :
          /\ out.all_crops[i].data_source = "usda_api"
          /\ out.all_crops[j].data_source = "plantnet_api"
          /\ DedupKey(out.all_crops[i]) = DedupKey(out.all_crops[j])
          /\ \E k \in DOMAIN out.crops : out.crops[k] = out.all_crops[i]
          /\ \A k \in DOMAIN out.crops : out.crops[k] # out.all_crops[j]

\* C17: with no live weather reading, a recommendation request completes
\* with the whole catalog scored on the caller's temperature and rainfall, a
\* value the caller did not give (a missing key, or the None the
\* /recommendations route passes for an omitted temperature) replaced by the
\* default 25 or 0.
C17_WeatherFallbackStillScores ==
    out.op = "recommend" /\ out.live_weather = <<>> =>
        LET temperature == IF out.weather_data.temperature.kind = "num"
                           THEN out.weather_data.temperature.val ELSE 25
            rainfall == IF out.weather_data.rainfall.kind = "num"
                        THEN out.weather_data.rainfall.val ELSE 0
        IN  /\ ~out.raised
            /\ out.scored = ServiceScored(load_crop_database(store), <<temperature>>,
                                          <<rainfall>>, out.current_season)

\* The factor tags of a result that belong to one factor.
TagsOf(factors, tags) == {i \in DOMAIN factors : factors[i] \in tags}

\* The pH level lies within the pH range of the crop.
PhWithinRange(crop, ph_level) ==
    /\ crop.ph_range.min # <<>> /\ crop.ph_range.max # <<>>
    /\ crop.ph_range.min[1] <= ph_level[1] /\ ph_level[1] <= crop.ph_range.max[1]

\* C18: an enhanced request without soil_type or ph_level does not fail, and
\* the absent factor adds no weight and no tag; a pH level that is given is
\* evaluated: full pH weight and ph_optimal if it is within the crop's range,
\* otherwise no weight and ph_suboptimal.
C18_OptionalFactorsOnlyWhenSupplied ==
    out.op = "enhanced" =>
        /\ ~out.raised
        /\ \A i \in DOMAIN out.scored :
              LET crop == get_all_crops(store)[i]
                  factors == out.scored[i].factors
                  soil == EnhancedSoil(crop, out.soil_type).score
                  ph == out.scored[i].suitability_score
                          - EnhancedTemp(crop, <<out.temperature>>).score
                          - EnhancedRain(crop, <<out.rainfall>>).score - soil
              IN  /\ out.soil_type = <<>> =>
                        soil = 0 /\ TagsOf(factors, {"soil_optimal", "soil_suboptimal"}) = {}
                  /\ out.ph_level = <<>> =>
                        ph = 0 /\ TagsOf(factors, {"ph_optimal", "ph_suboptimal"}) = {}
                  /\ out.ph_level # <<>> =>
                        IF PhWithinRange(crop, out.ph_level)
                        THEN /\ ph = 2
                             /\ TagsOf(factors, {"ph_optimal"}) # {}
                             /\ TagsOf(factors, {"ph_suboptimal"}) = {}
                        ELSE /\ ph = 0
                             /\ TagsOf(factors, {"ph_suboptimal"}) # {}
                             /\ TagsOf(factors, {"ph_optimal"}) = {}

\* C19: when a soil type is given, a crop without soil types gets no soil
\* weight and the tag soil_suboptimal, and nothing raises; a crop with soil
\* types gets the full weight and soil_optimal if the soil type is one of
\* them, and soil_suboptimal otherwise.
C19_SoilFactorFlaggedWhenSupplied ==
    out.op = "enhanced" /\ out.soil_type # <<>> =>
        /\ ~out.raised
        /\ \A i \in DOMAIN out.scored :
              LET crop == get_all_crops(store)[i]
                  factors == out.scored[i].factors
                  soil == out.scored[i].suitability_score
                            - EnhancedTemp(crop, <<out.temperature>>).score
                            - EnhancedRain(crop, <<out.rainfall>>).score
                            - EnhancedPh(crop, out.ph_level).score
                  member == \E k \in DOMAIN crop.soil_type_preference :
                                crop.soil_type_preference[k] = out.soil_type[1]
              IN  IF member
                  THEN /\ soil = 2
                       /\ TagsOf(factors, {"soil_optimal"}) # {}
                       /\ TagsOf(factors, {"soil_suboptimal"}) = {}
                  ELSE /\ soil = 0
                       /\ TagsOf(factors, {"soil_suboptimal"}) # {}
                       /\ TagsOf(factors, {"soil_optimal"}) = {}

\* The three cases of the temperature factor: inside the range; outside it
\* and less than 5 degrees from its minimum or from its maximum; more than 5
\* degrees from both.  (At exactly 5 degrees the two scoring paths differ;
\* neither case is required there.)
TempInside(crop, temperature) ==
    crop.optimal_temperature_min[1] <= temperature
        /\ temperature <= crop.optimal_temperature_max[1]

TempInBand(crop, temperature) ==
    /\ ~TempInside(crop, temperature)
    /\ \/ Abs(temperature - crop.optimal_temperature_min[1]) < 5
       \/ Abs(temperature - crop.optimal_temperature_max[1]) < 5

TempFarOff(crop, temperature) ==
    /\ ~TempInside(crop, temperature)
    /\ Abs(temperature - crop.optimal_temperature_min[1]) > 5
    /\ Abs(temperature - crop.optimal_temperature_max[1]) > 5

\* C20: in both scoring paths the temperature factor has the full weight
\* inside the range, the partial weight in the band of 5 degrees around either
\* bound, and no weight beyond it; the enhanced path tags the three cases
\* temperature_optimal, temperature_acceptable and temperature_poor, one tag
\* per result.
C20_TemperatureFactorThreeWay ==
    /\ out.op = "recommend" /\ ~out.raised =>
          LET crop_database == load_crop_database(store)
              temperature == DictGet(out.weather_used.temperature, Num(25)).val
              rainfall == Opt(DictGet(out.weather_used.rainfall, Num(0)))
          IN  \A i \in DOMAIN out.scored :
                  LET crop == crop_database[i].crop
                      temp_score == out.scored[i].suitability_score
                                      - ServiceRainScore(crop, rainfall)
                                      - ServiceSeasonScore(crop, out.current_season)
                  IN  /\ TempInside(crop, temperature) => temp_score = 4
                      /\ TempInBand(crop, temperature) => temp_score = 2
                      /\ TempFarOff(crop, temperature) => temp_score = 0
    /\ out.op = "enhanced" /\ ~out.raised =>
          \A i \in DOMAIN out.scored :
              LET crop == get_all_crops(store)[i]
                  factors == out.scored[i].factors
                  temp_score == out.scored[i].suitability_score
                                  - EnhancedRain(crop, <<out.rainfall>>).score
                                  - EnhancedSoil(crop, out.soil_type).score
                                  - EnhancedPh(crop, out.ph_level).score
                  Tagged(tag) ==
                      /\ TagsOf(factors, {tag}) # {}
                      /\ Cardinality(TagsOf(factors, {"temperature_optimal",
                              "temperature_acceptable", "temperature_poor"})) = 1
              IN  /\ TempInside(crop, out.temperature) =>
                        temp_score = 3 /\ Tagged("temperature_optimal")
                  /\ TempInBand(crop, out.temperature) =>
                        temp_score = 2 /\ Tagged("temperature_acceptable")
                  /\ TempFarOff(crop, out.temperature) =>
                        temp_score = 0 /\ Tagged("temperature_poor")

\* The three cases of the rainfall factor: inside the range; outside it and
\* at most 200 mm from its minimum or from its maximum; further off.
RainInside(crop, rainfall) ==
    crop.optimal_rainfall_min[1] <= rainfall /\ rainfall <= crop.optimal_rainfall_max[1]

RainInBand(crop, rainfall) ==
    /\ ~RainInside(crop, rainfall)
    /\ \/ Abs(rainfall - crop.optimal_rainfall_min[1]) <= 200
       \/ Abs(rainfall - crop.optimal_rainfall_max[1]) <= 200

RainFarOff(crop, rainfall) ==
    ~RainInside(crop, rainfall) /\ ~RainInBand(crop, rainfall)

\* C21: in both scoring paths the rainfall factor has the full weight inside
\* the range, a partial weight (more than nothing, less than the full weight)
\* up to 200 mm outside either bound, and no weight beyond; the enhanced path
\* tags the partial case rainfall_acceptable.
C21_RainfallFactorThreeWay ==
    /\ out.op = "recommend" /\ ~out.raised =>
          LET crop_database == load_crop_database(store)
              temperature == Opt(DictGet(out.weather_used.temperature, Num(25)))
              rainfall == DictGet(out.weather_used.rainfall, Num(0)).val
          IN  \A i \in DOMAIN out.scored :
                  LET crop == crop_database[i].crop
                      rain_score == out.scored[i].suitability_score
                                      - ServiceTempScore(crop, temperature)
                                      - ServiceSeasonScore(crop, out.current_season)
                  IN  /\ RainInside(crop, rainfall) => rain_score = 3
                      /\ RainInBand(crop, rainfall) => 0 < rain_score /\ rain_score < 3
                      /\ RainFarOff(crop, rainfall) => rain_score = 0
    /\ out.op = "enhanced" /\ ~out.raised =>
          \A i \in DOMAIN out.scored :
              LET crop == get_all_crops(store)[i]
                  factors == out.scored[i].factors
                  rain_score == out.scored[i].suitability_score
                                  - EnhancedTemp(crop, <<out.temperature>>).score
                                  - EnhancedSoil(crop, out.soil_type).score
                                  - EnhancedPh(crop, out.ph_level).score
              IN  /\ RainInside(crop, out.rainfall) =>
                        rain_score = 3 /\ TagsOf(factors, {"rainfall_optimal"}) # {}
                  /\ RainInBand(crop, out.rainfall) =>
                        /\ 0 < rain_score /\ rain_score < 3
                        /\ TagsOf(factors, {"rainfall_acceptable"}) # {}
                        /\ TagsOf(factors, {"rainfall_poor"}) = {}
                  /\ RainFarOff(crop, out.rainfall) =>
                        rain_score = 0 /\ TagsOf(factors, {"rainfall_poor"}) # {}

\* The growing season of the crop is the current season or year_round (the
\* names compared without regard to letter case).
SeasonMatches(crop, season) ==
    Lower(crop.growing_season) = season \/ Lower(crop.growing_season) = s_year_round

\* C22: in _calculate_crop_suitability a crop whose temperature range holds
\* the temperature, whose rainfall range holds the rainfall and whose season
\* matches scores exactly 1.0, and the season term is its weight 0.3 if the
\* season matches and nothing if it does not.
C22_FullMatchScoresOne ==
    out.op = "recommend" /\ ~out.raised =>
        LET crop_database == load_crop_database(store)
            temperature == DictGet(out.weather_used.temperature, Num(25)).val
            rainfall == DictGet(out.weather_used.rainfall, Num(0)).val
        IN  \A i \in DOMAIN out.scored :
                LET crop == crop_database[i].crop
                    score == out.scored[i].suitability_score
                    season_term == score - ServiceTempScore(crop, <<temperature>>)
                                         - ServiceRainScore(crop, <<rainfall>>)
                IN  /\ (TempInside(crop, temperature) /\ RainInside(crop, rainfall)
                            /\ SeasonMatches(crop, out.current_season)) => score = 10
                    /\ season_term = IF SeasonMatches(crop, out.current_season)
                                     THEN 3 ELSE 0

\* C22 witness: one request scored a crop 1.0 whose season is the current
\* season (not year_round), and a crop whose season does not match below it.
C22_Witness ==
    /\ out.op = "recommend" /\ ~out.raised
    /\ LET crop_database == load_crop_database(store)
       IN  \E i, j \in DOMAIN out.scored :
              /\ out.scored[i].suitability_score = 10
              /\ Lower(crop_database[i].crop.growing_season) = out.current_season
              /\ ~SeasonMatches(crop_database[j].crop, out.current_season)
              /\ out.scored[j].suitability_score < 10

\* A value lies within two bounds, a bound that is not set being no bound.
WithinOpen(lo, x, hi) == (lo = <<>> \/ lo[1] <= x) /\ (hi = <<>> \/ x <= hi[1])

\* C23: a request on numbers does not raise when a crop of the catalog has a
\* bound that is not set, and the factor of that crop has its full weight
\* when the value is within the bounds that are set, in both scoring paths.
C23_UnsetBoundIsUnconstrained ==
    /\ (out.op = "recommend"
          /\ DictGet(out.weather_used.temperature, Num(25)).kind = "num") =>
          LET crop_database == load_crop_database(store)
              temperature == DictGet(out.weather_used.temperature, Num(25)).val
              rainfall == DictGet(out.weather_used.rainfall, Num(0)).val
          IN  /\ ~out.raised
              /\ \A i \in DOMAIN out.scored :
                    LET crop == crop_database[i].crop
                        factors == out.scored[i].suitability_score
                                     - ServiceSeasonScore(crop, out.current_season)
                    IN  (WithinOpen(crop.optimal_temperature_min, temperature,
                                    crop.optimal_temperature_max)
                         /\ WithinOpen(crop.optimal_rainfall_min, rainfall,
                                       crop.optimal_rainfall_max)) => factors = 7
    /\ out.op = "enhanced" =>
          /\ ~out.raised
          /\ \A i \in DOMAIN out.scored :
                LET crop == get_all_crops(store)[i]
                    factors == out.scored[i].suitability_score
                                 - EnhancedSoil(crop, out.soil_type).score
                                 - EnhancedPh(crop, out.ph_level).score
                IN  (WithinOpen(crop.optimal_temperature_min, out.temperature,
                                crop.optimal_temperature_max)
                     /\ WithinOpen(crop.optimal_rainfall_min, out.rainfall,
                                   crop.optimal_rainfall_max)) => factors = 6

\* C24: a refresh returns the counts whenever a source returned a profile,
\* and the top-level error only when nothing was fetched; failures of single
\* records stay in the errors list of the counts.
C24_RefreshResultShape ==
    out.op = "refresh" =>
        /\ out.result.kind \in {"counts", "error"}
        /\ out.all_crops # <<>> => out.result.kind = "counts"
        /\ out.result.kind = "error" => ~out.sync_invoked /\ out.all_crops = <<>>
        /\ out.sync_invoked =>
              /\ out.result.kind = "counts"
              /\ DOMAIN out.result = {"kind", "added", "updated", "errors",
                                      "total_processed"}

\* The crop dicts of a list that have no crop name: the key is missing, or
\* its value is None or blank.
Nameless(crops) ==
    {i \in DOMAIN crops : crops[i].crop_name.kind # "str"
                             \/ Strip(crops[i].crop_name.val) = <<>>}

\* C25: a fetched record without a crop name is dropped before the merge: it
\* is not in the merged catalog that goes to sync, and the errors of sync
\* have no entry for it.
C25_NamelessRecordDropped ==
    out.op = "refresh" =>
        /\ Nameless(out.crops) = {}
        /\ out.sync_invoked =>
              \A i \in DOMAIN out.result.errors :
                  out.result.errors[i].crop # Str(s_unknown)

\* C26: seed_database is idempotent.  After a run the rows that were in the
\* store before it are still there, unchanged and in place (a crop name already
\* stored is not overwritten), and a second run on the same crops.json would
\* insert nothing and modify nothing.
C26_SeedIdempotent ==
    out.op = "seed" =>
        /\ Len(store) >= Len(out.db_before)
        /\ SubSeq(store, 1, Len(out.db_before)) = out.db_before
        /\ seed_database(store, out.file) = store

\* The run that just ended was the second of two runs on the same file, the
\* first of which had inserted two crops.
C26_Witness ==
    /\ out.op = "seed"
    /\ out.file.readable
    /\ Len(out.db_before) = 2
    /\ out.db_before = seed_database(<<>>, out.file)
    /\ store = out.db_before

\* The rows of a table
Rows(db) == {db[i] : i \in DOMAIN db}

Supplying(crops, row) ==
    {i \in DOMAIN crops : crops[i].crop_name = Str(row.crop_name)}

\* The row holds the profile: its data_source and its fields.
HoldsProfile(row, profile) ==
    row = [id |-> row.id] @@
          [CropDataCreate(profile) EXCEPT !.data_source = profile.data_source]

\* C28: after a refresh every stored crop whose name a source supplied holds
\* the data_source and the fields of the highest-priority profile of that
\* name; a later profile of the same name does not replace them.
C28_StoredRecordIsHighestPriority ==
    out.op = "refresh" /\ out.sync_invoked =>
        \A k \in DOMAIN store :
            LET supplying == Supplying(out.crops, store[k])
            IN  supplying # {} =>
                  HoldsProfile(store[k],
                               out.crops[CHOOSE i \in supplying :
                                            \A j \in supplying : i <= j])

\* C29: a call of sync_crops_to_database that returns the counts accounts for
\* every profile exactly once: added + updated + len(errors) is
\* total_processed, which is the number of profiles passed in.
C29_EveryProfileAccountedFor ==
    (out.op = "refresh" /\ out.sync_invoked /\ out.result.kind = "counts") =>
        /\ out.result.total_processed = Len(out.crops)
        /\ out.result.added + out.result.updated + Len(out.result.errors)
              = out.result.total_processed

\* A sync over a catalog with a profile whose name is stored (the update
\* branch) and one whose name is not (the insert branch).
C29_Witness ==
    /\ out.op = "refresh" /\ out.sync_invoked
    /\ out.result.kind = "counts"
    /\ \E i, j \in DOMAIN out.crops :
          /\ get_crop_by_name(out.db_before, out.crops[i].crop_name) # <<>>
          /\ out.crops[j].crop_name.kind = "str"
          /\ get_crop_by_name(out.db_before, out.crops[j].crop_name) = <<>>

\* What scoring the crops of a table on a temperature and a rainfall comes to:
\* the scores, or the exception of the first comparison with None.
ScoringOutcome(db, temperature, rainfall, current_season) ==
    LET crop_database == load_crop_database(db)
    IN  IF \E i \in DOMAIN crop_database :
              SuitabilityRaises(crop_database[i].crop, temperature, rainfall)
        THEN [raised |-> TRUE, scored |-> <<>>]
        ELSE [raised |-> FALSE,
              scored |-> ServiceScored(crop_database, temperature, rainfall,
                                       current_season)]

\* C30: when get_live_weather returned a reading, the crops are scored on its
\* temperature and on rainfall 0, whatever temperature and rainfall the caller
\* gave; when it returned None (or was not called for want of coordinates),
\* weather_data is left as the caller gave it and its values are the ones
\* scored (a temperature key that is missing counts as 25, a rainfall key
\* that is missing as 0).
C30_LiveWeatherOverridesCaller ==
    out.op = "recommend" =>
        LET outcome == [raised |-> out.raised, scored |-> out.scored]
        IN  IF out.live_weather # <<>>
            THEN /\ out.weather_used.temperature = Num(out.live_weather[1].temperature)
                 /\ out.weather_used.rainfall = Num(0)
                 /\ outcome = ScoringOutcome(store,
                                             <<out.live_weather[1].temperature>>,
                                             <<0>>, out.current_season)
            ELSE /\ out.weather_used = out.weather_data
                 /\ outcome =
                      ScoringOutcome(store,
                                     Opt(DictGet(out.weather_data.temperature, Num(25))),
                                     Opt(DictGet(out.weather_data.rainfall, Num(0))),
                                     out.current_season)

\* A live reading replaced a temperature and a rainfall the caller gave, and
\* the scores are not the ones the caller's values give.
C30_Witness ==
    /\ out.op = "recommend"
    /\ out.live_weather # <<>>
    /\ out.weather_data.temperature.kind = "num"
    /\ out.weather_data.temperature.val # out.live_weather[1].temperature
    /\ out.weather_data.rainfall.kind = "num"
    /\ out.weather_data.rainfall.val # 0
    /\ out.scored # <<>>
    /\ out.scored # ServiceScored(load_crop_database(store),
                                  <<out.weather_data.temperature.val>>,
                                  <<out.weather_data.rainfall.val>>,
                                  out.current_season)

=============================================================================
